---------------------------- MODULE Spec2Model ----------------------------
(***************************************************************************)
(* Survey pre-processing toolkit (streamlit_survey_prepro_app.py).         *)
(*                                                                         *)
(* A table (pandas DataFrame) is a sequence of columns in column order;    *)
(* a column is [name, dtype, vals].  Names and text values are sequences   *)
(* of characters, so that endswith('(TEXT)'), col[:-6], the regex prefix   *)
(* before the first '_' and the f"{base}_{i}" renaming are computed on     *)
(* characters.  A cell is a record [t, s, n, d]: missing (NaN), a string,  *)
(* or the exact rational n/d (floats are modelled without rounding).       *)
(***************************************************************************)
EXTENDS Integers, Sequences, FiniteSets, TLC

VARIABLES
    df,        \* the caller's variable df: the table it currently refers to
    pop_df,    \* the population reference object the caller holds
    raw,       \* the table as uploaded (never written after Init)
    raw_pop,   \* the population reference as uploaded (never written after Init)
    arg,       \* df as it was when the last stage was entered
    passed,    \* the table object handed to the last stage, as the stage left it
    once,      \* what the first handle_missing call returned
    opts,      \* sidebar inputs: use_weight, pop_file, strata_cols, do_missing, ...
    tidy,      \* the long tables tidy_zip wrote
    last,      \* the stage that ran last: [stage, err, alias]
    calls,     \* number of calls made when a stage is called on its own
    pc         \* position in the run

vars == <<df, pop_df, raw, raw_pop, arg, passed, once, opts, tidy, last, calls, pc>>

---------------------------------------------------------------------------
(* Bounds of the model.                                                    *)
MaxRows == 2
MaxSample == 3
MaxCalls == 2

(* Program constants.                                                      *)
SuffixLen == 6
MinGroup == 2
NuniqueMax == 20

---------------------------------------------------------------------------
(* Strings.                                                                *)
TEXT == <<"(", "T", "E", "X", "T", ")">>
US == "_"
\* the fill label (a Korean phrase for "skipped / not applicable")
SENTINEL == <<"s", "k", "i", "p">>
KEY == <<"_", "_", "k", "e", "y", "_", "_">>
SAMPLE_SHARE == <<"s", "a", "m", "p", "l", "e", "_", "s", "h", "a", "r", "e">>
WEIGHT == <<"w", "e", "i", "g", "h", "t">>

Range(s) == {s[i] : i \in 1..Len(s)}

DigitChar == <<"0", "1", "2", "3", "4", "5", "6", "7", "8", "9">>

RECURSIVE Digits(_)
Digits(i) == IF i < 10 THEN <<DigitChar[i + 1]>>
             ELSE Digits(i \div 10) \o <<DigitChar[(i % 10) + 1]>>

EndsWith(s, suf) ==
    /\ Len(s) >= Len(suf)
    /\ SubSeq(s, Len(s) - Len(suf) + 1, Len(s)) = suf

StripSuffix(s) == SubSeq(s, 1, Len(s) - SuffixLen)

HasUnderscore(s) == \E i \in 1..Len(s) : s[i] = US

FirstUnderscore(s) == CHOOSE i \in 1..Len(s) : s[i] = US /\ \A j \in 1..(i - 1) : s[j] # US

Prefix(s) == SubSeq(s, 1, FirstUnderscore(s) - 1)

---------------------------------------------------------------------------
(* Cells and columns.                                                      *)
NA == [t |-> "na", s |-> <<>>, n |-> 0, d |-> 1]
Str(x) == [t |-> "str", s |-> x, n |-> 0, d |-> 1]
Num(a, b) == [t |-> "num", s |-> <<>>, n |-> a, d |-> b]
Whole(a) == Num(a, 1)

NotNa(c) == c.t # "na"

RECURSIVE Gcd(_, _)
Gcd(a, b) == IF b = 0 THEN a ELSE Gcd(b, a % b)

Frac(a, b) == IF a = 0 THEN Num(0, 1) ELSE Num(a \div Gcd(a, b), b \div Gcd(a, b))

NumDiv(x, y) == Frac(x.n * y.d, x.d * y.n)

AsStr(c, dtype) ==
    IF c.t = "str" THEN c.s
    ELSE IF dtype = "float64" THEN Digits(c.n) \o <<".", "0">>
    ELSE Digits(c.n)

InferDtype(vals) ==
    LET present == {v \in Range(vals) : NotNa(v)}
    IN  IF \E v \in present : v.t = "str" THEN "object"
        ELSE IF present = Range(vals) /\ \A v \in present : v.d = 1 THEN "int64"
        ELSE "float64"

MkCol(name, vals) == [name |-> name, dtype |-> InferDtype(vals), vals |-> vals]

---------------------------------------------------------------------------
(* Tables.                                                                 *)
Columns(t) == [i \in 1..Len(t) |-> t[i].name]
HasCol(t, name) == \E i \in 1..Len(t) : t[i].name = name
Col(t, name) == t[CHOOSE i \in 1..Len(t) : t[i].name = name]
NRows(t) == IF Len(t) = 0 THEN 0 ELSE Len(t[1].vals)

IsCol(c, name) == c.name = name

SetCol(t, c) ==
    IF HasCol(t, c.name)
    THEN [i \in 1..Len(t) |-> IF t[i].name = c.name THEN c ELSE t[i]]
    ELSE Append(t, c)

DropCol(t, name) == SelectSeq(t, LAMBDA c : ~IsCol(c, name))

RenameCol(t, old, new) ==
    [i \in 1..Len(t) |-> IF t[i].name = old THEN [t[i] EXCEPT !.name = new] ELSE t[i]]

Fillna(c, v) == [c EXCEPT !.vals = [i \in 1..Len(c.vals) |->
                                     IF NotNa(c.vals[i]) THEN c.vals[i] ELSE v]]

Nunique(c) == Cardinality({v \in Range(c.vals) : NotNa(v)})

---------------------------------------------------------------------------
(* detect_pairs, detect_multiresp.                                         *)
IsPairedText(col, columns) ==
    /\ EndsWith(col, TEXT)
    /\ StripSuffix(col) \in Range(columns)

detect_pairs(columns) ==
    LET texts == SelectSeq(columns, LAMBDA col : IsPairedText(col, columns))
    IN  [i \in 1..Len(texts) |-> [code |-> StripSuffix(texts[i]), text |-> texts[i]]]

PairKeys(pairs) == [i \in 1..Len(pairs) |-> pairs[i].code]

SamePrefix(c, g) == HasUnderscore(c) /\ Prefix(c) = g

detect_multiresp(code_cols) ==
    LET grouped == SelectSeq(code_cols, HasUnderscore)
        prefixes == {Prefix(c) : c \in Range(grouped)}
        members(g) == SelectSeq(code_cols, LAMBDA c : SamePrefix(c, g))
    IN  [g \in {p \in prefixes : Len(members(p)) >= MinGroup} |-> members(g)]

Flat(groups) == UNION {Range(groups[g]) : g \in DOMAIN groups}

---------------------------------------------------------------------------
(* handle_missing: binarize the multi-response code columns, then fill the *)
(* other categorical columns with the sentinel.  Works on df in place and  *)
(* returns it.                                                             *)
Binarize(c) ==
    [c EXCEPT !.dtype = "int64",
              !.vals = [i \in 1..Len(c.vals) |->
                           IF NotNa(c.vals[i]) THEN Whole(1) ELSE Whole(0)]]

FillEligible(c) ==
    /\ c.dtype \in {"object", "int64"}
    /\ Nunique(c) <= NuniqueMax

FillSkip(c) == IF FillEligible(c) THEN Fillna(c, Str(SENTINEL)) ELSE c

\* groups detected over every column name, paired or not
MultirespFlatAllColumns(t) == Flat(detect_multiresp(Columns(t)))

MultirespFlat(t) == Flat(detect_multiresp(PairKeys(detect_pairs(Columns(t)))))

handle_missing(t, id_var) ==
    LET multiresp_flat == MultirespFlat(t)
    IN  [i \in 1..Len(t) |->
            IF t[i].name \in multiresp_flat THEN Binarize(t[i])
            ELSE IF t[i].name = id_var THEN t[i]
            ELSE FillSkip(t[i])]

---------------------------------------------------------------------------
(* label_encode: one pass over the detected pairs, mutating df in place.   *)
(* The state of the loop is [df, used, err].                               *)
RECURSIVE Uniquify(_, _, _)
Uniquify(base, i, used) ==
    LET label == base \o <<US>> \o Digits(i)
    IN  IF label \in used THEN Uniquify(base, i + 1, used) ELSE label

FirstLabel(c, code_col) ==
    LET present == SelectSeq(c.vals, NotNa)
    IN  IF Len(present) > 0 THEN AsStr(present[1], c.dtype) ELSE code_col

NewName(c, code_col, used) ==
    LET base == FirstLabel(c, code_col)
    IN  IF base \in used THEN Uniquify(base, 1, used) ELSE base

RenameBranch(st, p) ==
    LET label == NewName(Col(st.df, p.text), p.code, st.used)
    IN  [df |-> DropCol(RenameCol(st.df, p.code, label), p.text),
         used |-> st.used \cup {label},
         err |-> "none"]

DecodeBranch(st, p) ==
    [st EXCEPT !.df = DropCol(SetCol(st.df, [Col(st.df, p.text) EXCEPT !.name = p.code]),
                              p.text)]

LabelStep(st, p, mresp_flat) ==
    IF st.err # "none" THEN st
    ELSE IF ~HasCol(st.df, p.text) THEN [st EXCEPT !.err = "KeyError"]
    ELSE IF p.code \in mresp_flat THEN RenameBranch(st, p)
    ELSE DecodeBranch(st, p)

RECURSIVE LabelLoop(_, _, _, _)
LabelLoop(st, pairs, k, mresp_flat) ==
    IF k > Len(pairs) THEN st
    ELSE LabelLoop(LabelStep(st, pairs[k], mresp_flat), pairs, k + 1, mresp_flat)

label_encode(t) ==
    LET pairs == detect_pairs(Columns(t))
    IN  LabelLoop([df |-> t, used |-> Range(Columns(t)), err |-> "none"],
                  pairs, 1, MultirespFlat(t))

---------------------------------------------------------------------------
(* add_weights.  The strata key of a row is the tuple of its strata cells, *)
(* kept in the __key__ column as the tuple's text.  The result is          *)
(* [err, tbl, df, pop]: the table returned, and the caller's two objects   *)
(* as the call leaves them.                                                *)
CellRepr(c) ==
    IF c.t = "str" THEN <<"'">> \o c.s \o <<"'">>
    ELSE IF c.t = "na" THEN <<"n", "a", "n">>
    ELSE Digits(c.n) \o <<"/">> \o Digits(c.d)

RECURSIVE TupleRepr(_, _, _)
TupleRepr(t, cols, i) ==
    IF Len(cols) = 0 THEN <<>>
    ELSE CellRepr(Col(t, cols[1]).vals[i]) \o <<",">> \o TupleRepr(t, Tail(cols), i)

KeyCol(t, cols) ==
    [name |-> KEY, dtype |-> "object",
     vals |-> [i \in 1..NRows(t) |-> Str(TupleRepr(t, cols, i))]]

KeyCount(keys, k) == Cardinality({i \in 1..Len(keys) : keys[i] = k})

\* the count of the stratum, not divided by the number of rows
SampleShareUnscaled(keys, k) == Frac(KeyCount(keys, k), 1)

SampleShare(keys, k) == Frac(KeyCount(keys, k), Len(keys))

\* pop_df rows whose key equals k, in pop_df's row order
Matches(pkeys, k) == SelectSeq([j \in 1..Len(pkeys) |-> j], LAMBDA j : pkeys[j] = k)

\* the left join: one <<table row, population row or 0>> per output row
RECURSIVE LeftJoin(_, _, _)
LeftJoin(keys, pkeys, i) ==
    IF i > Len(keys) THEN <<>>
    ELSE LET m == Matches(pkeys, keys[i])
         IN  (IF Len(m) = 0 THEN <<(<<i, 0>>)>> ELSE [x \in 1..Len(m) |-> <<i, m[x]>>])
             \o LeftJoin(keys, pkeys, i + 1)

\* the left join without the fillna(0)
PopShareNoFill(popvals, j) == IF j = 0 THEN NA ELSE popvals[j]

PopShare(popvals, j) ==
    IF j = 0 THEN Whole(0)
    ELSE IF NotNa(popvals[j]) THEN popvals[j] ELSE Whole(0)

INF == [t |-> "inf", s |-> <<>>, n |-> 0, d |-> 1]

\* float division: NaN propagates, x / 0 is inf (0 / 0 is NaN)
Weight(pop_share, sample_share) ==
    IF ~NotNa(pop_share) \/ ~NotNa(sample_share) THEN NA
    ELSE IF sample_share.n = 0 THEN (IF pop_share.n = 0 THEN NA ELSE INF)
    ELSE NumDiv(pop_share, sample_share)

TakeRows(c, joined) == [c EXCEPT !.vals = [x \in 1..Len(joined) |-> c.vals[joined[x][1]]]]

Weighted(t, pop, cols, pop_col) ==
    LET keys == KeyCol(t, cols).vals
        pkeys == KeyCol(pop, cols).vals
        popvals == Col(pop, pop_col).vals
        joined == LeftJoin(keys, pkeys, 1)
        body == [c \in 1..Len(t) |-> TakeRows(t[c], joined)]
        wcol == [name |-> WEIGHT, dtype |-> "float64",
                 vals |-> [x \in 1..Len(joined) |->
                              Weight(PopShare(popvals, joined[x][2]),
                                     SampleShare(keys, keys[joined[x][1]]))]]
    IN  SetCol(body, wcol)

Raised(kind, t, pop) == [err |-> kind, tbl |-> <<>>, df |-> t, pop |-> pop]

add_weights(t, pop, cols, pop_col) ==
    IF \E c \in Range(cols) : ~HasCol(t, c) THEN Raised("KeyError", t, pop)
    ELSE IF Len(cols) = 0 /\ NRows(t) # 0 THEN Raised("ValueError", t, pop)
    ELSE LET t1 == SetCol(t, KeyCol(t, cols))
         IN  IF \E c \in Range(cols) : ~HasCol(pop, c) THEN Raised("KeyError", t1, pop)
             ELSE IF Len(cols) = 0 /\ NRows(pop) # 0 THEN Raised("ValueError", t1, pop)
             ELSE LET pop1 == SetCol(pop, KeyCol(pop, cols))
                  IN  IF \/ ~HasCol(pop, pop_col)
                         \/ HasCol(t, pop_col)
                         \/ HasCol(t, SAMPLE_SHARE)
                      THEN Raised("KeyError", t1, pop1)
                      ELSE [err |-> "none", tbl |-> Weighted(t, pop, cols, pop_col),
                            df |-> t1, pop |-> pop1]

---------------------------------------------------------------------------
(* tidy_zip: the long rows of all_tidy.csv and of each <group>_tidy.csv.   *)
LongRow(t, id_var, p, i) ==
    [id |-> Col(t, id_var).vals[i], option |-> p.code,
     code_value |-> Col(t, p.code).vals[i], option_text |-> Col(t, p.text).vals[i]]

LongRows(t, id_var, p) ==
    LET kept == SelectSeq([i \in 1..NRows(t) |-> i], LAMBDA i : NotNa(Col(t, p.code).vals[i]))
    IN  [x \in 1..Len(kept) |-> LongRow(t, id_var, p, kept[x])]

RECURSIVE Concat(_)
Concat(frames) == IF Len(frames) = 0 THEN <<>> ELSE frames[1] \o Concat(Tail(frames))

PairOf(pairs, c) == pairs[CHOOSE k \in 1..Len(pairs) : pairs[k].code = c]

tidy_zip(t, id_var) ==
    LET pairs == detect_pairs(Columns(t))
        mresp_groups == detect_multiresp(PairKeys(pairs))
    IN  IF Len(pairs) > 0 /\ ~HasCol(t, id_var)
        THEN [err |-> "KeyError", all |-> <<>>, groups |-> <<>>]
        ELSE [err |-> "none",
              all |-> Concat([k \in 1..Len(pairs) |-> LongRows(t, id_var, pairs[k])]),
              groups |-> [g \in DOMAIN mresp_groups |->
                            Concat([k \in 1..Len(mresp_groups[g]) |->
                                      LongRows(t, id_var, PairOf(pairs, mresp_groups[g][k]))])]]

---------------------------------------------------------------------------
(* The strata text input: split on ',', strip, drop the empty pieces.      *)
HasComma(s) == \E i \in 1..Len(s) : s[i] = ","
FirstComma(s) == CHOOSE i \in 1..Len(s) : s[i] = "," /\ \A j \in 1..(i - 1) : s[j] # ","

RECURSIVE Split(_)
Split(s) ==
    IF ~HasComma(s) THEN <<s>>
    ELSE <<SubSeq(s, 1, FirstComma(s) - 1)>> \o Split(SubSeq(s, FirstComma(s) + 1, Len(s)))

RECURSIVE Strip(_)
Strip(s) ==
    IF Len(s) = 0 THEN s
    ELSE IF s[1] = " " THEN Strip(Tail(s))
    ELSE IF s[Len(s)] = " " THEN Strip(SubSeq(s, 1, Len(s) - 1))
    ELSE s

NonEmpty(s) == Len(s) > 0

ParseStrata(strata_cols) ==
    LET pieces == Split(strata_cols)
    IN  SelectSeq([k \in 1..Len(pieces) |-> Strip(pieces[k])], NonEmpty)

---------------------------------------------------------------------------
(* Inputs: column names, cell values and the uploaded tables.              *)
ID == <<"i", "d">>
Q1 == <<"Q", "1">>
Q2_1 == <<"Q", "2", "_", "1">>
Q2_2 == <<"Q", "2", "_", "2">>
X == <<"X">>
Y == <<"Y">>
REGION == <<"r", "e", "g", "i", "o", "n">>
AGE == <<"a", "g", "e">>
AREA == <<"a", "r", "e", "a">>
POP_SHARE == <<"p", "o", "p", "_", "s", "h", "a", "r", "e">>

Yes == <<"Y", "e", "s">>
No == <<"N", "o">>

F(name, dom) == [name |-> name, dom |-> dom]

\* the values one column can take over n rows; the id column numbers the rows
ColVals(f, n) ==
    IF f.name = ID THEN {[i \in 1..n |-> Str(Digits(1000 + i))]}
    ELSE [1..n -> f.dom]

RECURSIVE TablesOf(_, _)
TablesOf(layout, n) ==
    IF Len(layout) = 0 THEN {<<>>}
    ELSE {<<MkCol(layout[1].name, v)>> \o rest :
              v \in ColVals(layout[1], n), rest \in TablesOf(Tail(layout), n)}

Uploads(layouts, maxrows) == UNION {TablesOf(l, n) : l \in layouts, n \in 1..maxrows}

MissingLayouts ==
    { <<F(ID, {}), F(Q1, {NA, Whole(3)}), F(Q1 \o TEXT, {NA, Str(Yes)}),
        F(Q2_1, {NA, Whole(7)}), F(Q2_2, {NA, Whole(7)})>>,
      <<F(ID, {}), F(Q2_1, {NA, Whole(7)}), F(Q2_1 \o TEXT, {NA, Str(Yes)}),
        F(Q2_2, {NA, Whole(7)}), F(Q2_2 \o TEXT, {NA, Str(No)})>> }

LabelLayouts ==
    { <<F(ID, {}), F(Q2_1, {NA, Whole(7)}), F(Q2_1 \o TEXT, {NA, Str(Yes)}),
        F(Q2_2, {Whole(7)}), F(Q2_2 \o TEXT, {NA, Str(Yes), Str(ID), Str(No \o TEXT)})>>,
      <<F(ID, {}), F(X, {NA, Str(<<"b">>)}), F(X \o TEXT, {NA, Str(Yes)}),
        F(X \o TEXT \o TEXT, {NA, Str(No)})>>,
      <<F(X \o TEXT \o TEXT, {NA, Str(No)}), F(X \o TEXT, {NA, Str(Yes)}),
        F(X, {NA, Str(<<"b">>)}), F(ID, {})>>,
      <<F(ID, {}), F(Y \o TEXT, {NA, Str(Yes)}), F(Q1, {NA, Whole(3)}),
        F(Q1 \o TEXT, {NA, Str(Yes)})>>,
      <<F(ID, {}), F(Q2_1, {Whole(7)}), F(Q2_1 \o TEXT, {NA, Str(Yes)}),
        F(Q2_1 \o TEXT \o TEXT, {Str(No)}), F(Q2_2, {Whole(7)}), F(Q2_2 \o TEXT, {Str(No)})>>,
      <<F(ID, {}), F(Q2_1 \o TEXT \o TEXT, {Str(No)}), F(Q2_1 \o TEXT, {NA, Str(Yes)}),
        F(Q2_1, {Whole(7)}), F(Q2_2, {Whole(7)}), F(Q2_2 \o TEXT, {Str(No)})>>,
      <<F(ID, {}), F(Q2_1, {Whole(7)}), F(Q2_1 \o TEXT, {NA, Whole(5)}),
        F(Q2_2, {Whole(7)}), F(Q2_2 \o TEXT, {Whole(5)})>> }

WeightLayouts ==
    { <<F(ID, {}), F(REGION, {Str(<<"A">>), Str(<<"B">>), Str(<<"Z">>)}),
        F(Q1, {NA, Whole(3)})>>,
      <<F(ID, {}), F(REGION, {Str(<<"A">>), Str(<<"B">>)}),
        F(AGE, {Str(<<"y">>), Str(<<"o">>)})>> }

PipelineLayouts ==
    { <<F(ID, {}), F(REGION, {Str(<<"A">>), Str(<<"Z">>)}),
        F(Q2_1, {NA, Whole(7)}), F(Q2_1 \o TEXT, {NA, Str(Yes)}),
        F(Q2_2, {Whole(7)}), F(Q2_2 \o TEXT, {Str(No)})>>,
      <<F(ID, {}), F(REGION, {Str(<<"A">>), Str(<<"Z">>)}),
        F(Q1, {NA, Str(<<"b">>)}), F(Q1 \o TEXT, {NA, Str(Yes)})>> }

PopRegion ==
    <<MkCol(REGION, <<Str(<<"A">>), Str(<<"B">>)>>),
      MkCol(POP_SHARE, <<Frac(6, 10), Frac(4, 10)>>)>>
PopDuplicate ==
    <<MkCol(REGION, <<Str(<<"A">>), Str(<<"A">>), Str(<<"B">>)>>),
      MkCol(POP_SHARE, <<Frac(6, 10), Frac(2, 10), Frac(4, 10)>>)>>
PopMissingShare ==
    <<MkCol(REGION, <<Str(<<"A">>), Str(<<"B">>)>>),
      MkCol(POP_SHARE, <<NA, Frac(1, 1)>>)>>
PopRegionAge ==
    <<MkCol(REGION, <<Str(<<"A">>), Str(<<"A">>), Str(<<"B">>)>>),
      MkCol(AGE, <<Str(<<"y">>), Str(<<"o">>), Str(<<"y">>)>>),
      MkCol(POP_SHARE, <<Frac(5, 10), Frac(3, 10), Frac(2, 10)>>)>>
PopArea ==
    <<MkCol(AREA, <<Str(<<"A">>), Str(<<"B">>)>>),
      MkCol(POP_SHARE, <<Frac(6, 10), Frac(4, 10)>>)>>
PopNoShare ==
    <<MkCol(REGION, <<Str(<<"A">>), Str(<<"B">>)>>)>>

PopUploads == {PopRegion, PopDuplicate, PopMissingShare, PopRegionAge, PopArea, PopNoShare}

StrataInputs ==
    { <<>>, <<",">>, REGION, <<" ">> \o REGION \o <<",">>,
      REGION \o <<",", " ">> \o AGE, <<"z", "z">> }

NoCall == [stage |-> "none", err |-> "none", alias |-> FALSE]
NoTidy == [err |-> "none", all |-> <<>>, groups |-> <<>>]
Options(w, f, s, m, t, l) ==
    [use_weight |-> w, pop_file |-> f, strata_cols |-> s,
     do_missing |-> m, do_tidy |-> t, do_label |-> l]

Start(table, pop, o, at) ==
    /\ df = table /\ raw = table
    /\ pop_df = pop /\ raw_pop = pop
    /\ arg = table /\ passed = table /\ once = <<>>
    /\ opts = o
    /\ tidy = NoTidy /\ last = NoCall /\ calls = 0
    /\ pc = at

---------------------------------------------------------------------------
(* The stages called on their own.                                         *)
InitMissing ==
    \E table \in Uploads(MissingLayouts, MaxRows) :
        Start(table, <<>>, Options(FALSE, FALSE, <<>>, TRUE, FALSE, FALSE), "call")

CallHandleMissing ==
    /\ pc = "call"
    /\ calls < MaxCalls
    /\ df' = handle_missing(df, ID)
    /\ arg' = df
    /\ passed' = df'
    /\ once' = IF calls = 0 THEN df' ELSE once
    /\ last' = [stage |-> "handle_missing", err |-> "none", alias |-> TRUE]
    /\ calls' = calls + 1
    /\ UNCHANGED <<pop_df, raw, raw_pop, opts, tidy, pc>>

MissingSpec == InitMissing /\ [][CallHandleMissing]_vars

InitLabel ==
    \E table \in Uploads(LabelLayouts, MaxRows) :
        Start(table, <<>>, Options(FALSE, FALSE, <<>>, FALSE, FALSE, TRUE), "call")

CallLabelEncode ==
    /\ pc = "call"
    /\ LET r == label_encode(df)
       IN  /\ df' = r.df
           /\ passed' = r.df
           /\ last' = [stage |-> "label_encode", err |-> r.err, alias |-> TRUE]
           /\ pc' = IF r.err = "none" THEN "returned" ELSE "raised"
    /\ arg' = df
    /\ calls' = calls + 1
    /\ UNCHANGED <<pop_df, raw, raw_pop, once, opts, tidy>>

LabelSpec == InitLabel /\ [][CallLabelEncode]_vars

InitWeight ==
    \E table \in Uploads(WeightLayouts, MaxSample), pop \in PopUploads, s \in StrataInputs :
        Start(table, pop, Options(TRUE, TRUE, s, FALSE, FALSE, FALSE), "call")

CallAddWeights ==
    /\ pc = "call"
    /\ LET r == add_weights(df, pop_df, ParseStrata(opts.strata_cols), POP_SHARE)
       IN  /\ df' = IF r.err = "none" THEN r.tbl ELSE r.df
           /\ passed' = r.df
           /\ pop_df' = r.pop
           /\ last' = [stage |-> "add_weights", err |-> r.err, alias |-> FALSE]
           /\ pc' = IF r.err = "none" THEN "returned" ELSE "raised"
    /\ arg' = df
    /\ calls' = calls + 1
    /\ UNCHANGED <<raw, raw_pop, once, opts, tidy>>

WeightSpec == InitWeight /\ [][CallAddWeights]_vars

---------------------------------------------------------------------------
(* Properties of the stages called on their own.                           *)

IdCells(t) == Col(t, ID).vals

\* C1 (as claimed): handle_missing is idempotent: a second application
\* returns the same table, cell for cell, as the first one did.
C1_HandleMissingIdempotent ==
    (last.stage = "handle_missing" /\ calls >= 2) => df = once

\* C2 (as claimed): the table label_encode returns has exactly (input column
\* count) minus (number of detected code/text pairs) columns.
C2_ColumnCountLaw ==
    pc = "returned" =>
        Len(df) = Len(raw) - Cardinality({c \in Range(Columns(raw)) :
                                            /\ EndsWith(c, TEXT)
                                            /\ HasCol(raw, SubSeq(c, 1, Len(c) - Len(TEXT)))})

\* C6 (as claimed): the table label_encode returns has no column whose name
\* ends in (TEXT).
C6_NoTextColumnLeft ==
    pc = "returned" => \A c \in Range(Columns(df)) : ~EndsWith(c, TEXT)

\* a code column with its own (TEXT) column that shares the text before its
\* first '_' with another code column that has its own (TEXT) column
PairedGroupMember(t, c) ==
    /\ HasCol(t, c \o TEXT)
    /\ HasUnderscore(c)
    /\ \E d \in Range(Columns(t)) :
          /\ d # c
          /\ HasCol(t, d \o TEXT)
          /\ HasUnderscore(d)
          /\ Prefix(d) = Prefix(c)

Flag(v) == IF NotNa(v) THEN Whole(1) ELSE Whole(0)

---------------------------------------------------------------------------
(* Properties of add_weights.                                              *)
Strata == ParseStrata(opts.strata_cols)

\* row i of the table and row j of the population reference have equal keys
SameKey(t, i, pop, j) == \A c \in Range(Strata) : Col(t, c).vals[i] = Col(pop, c).vals[j]

PopMatches(t, i, pop) == {j \in 1..NRows(pop) : SameKey(t, i, pop, j)}

Stratum(t, i) == {x \in 1..NRows(t) : \A c \in Range(Strata) : Col(t, c).vals[x] = Col(t, c).vals[i]}

OutRows(t, idcell) == {x \in 1..NRows(t) : IdCells(t)[x] = idcell}

Weighed == last.stage = "add_weights" /\ pc = "returned"

\* C3: a row whose strata key equals no key of the population reference is
\* kept, exactly once, and its weight is the number 0, not a missing value;
\* no weight is the outcome of a division by zero.
C3_UnmatchedRowsWeighZero ==
    Weighed =>
        /\ \A i \in 1..NRows(arg) :
              PopMatches(arg, i, raw_pop) = {} =>
                  /\ Cardinality(OutRows(df, IdCells(arg)[i])) = 1
                  /\ \A x \in OutRows(df, IdCells(arg)[i]) : Col(df, WEIGHT).vals[x] = Whole(0)
        /\ \A x \in 1..NRows(df) : Col(df, WEIGHT).vals[x].t \in {"num"}

C3_Witness ==
    /\ Weighed
    /\ NRows(arg) >= 2
    /\ \E i, k \in 1..NRows(arg) :
          /\ PopMatches(arg, i, raw_pop) = {}
          /\ PopMatches(arg, k, raw_pop) # {}
          /\ Col(df, WEIGHT).vals[i] = Whole(0)
          /\ Col(df, WEIGHT).vals[k] # Whole(0)

\* C5: a row whose strata key matches one population row with a share p gets
\* the weight w with w * (rows in its stratum) = p * (total rows); when no
\* row matches more than one population row the output has the input's rows
\* in the input's order.
C5_WeightIsShareRatio ==
    Weighed =>
        /\ \A i \in 1..NRows(arg) : \A j \in 1..NRows(raw_pop) :
              (PopMatches(arg, i, raw_pop) = {j} /\ NotNa(Col(raw_pop, POP_SHARE).vals[j])) =>
                  LET p == Col(raw_pop, POP_SHARE).vals[j]
                      out == OutRows(df, IdCells(arg)[i])
                  IN  /\ Cardinality(out) = 1
                      /\ \A x \in out :
                            LET w == Col(df, WEIGHT).vals[x]
                            IN  /\ w.t = "num"
                                /\ w.n * Cardinality(Stratum(arg, i)) * p.d
                                       = p.n * NRows(arg) * w.d
        /\ (\A i \in 1..NRows(arg) : Cardinality(PopMatches(arg, i, raw_pop)) <= 1) =>
              /\ Len(df) = Len(arg) + 1
              /\ \A c \in 1..Len(arg) : df[c] = arg[c]

C5_Witness ==
    /\ Weighed
    /\ NRows(arg) = 3
    /\ Strata = <<REGION>>
    /\ \A i \in 1..3 : Col(arg, REGION).vals[i] = Str(<<"A">>)
    /\ Col(raw_pop, POP_SHARE).vals[1] = Frac(6, 10)
    /\ PopMatches(arg, 1, raw_pop) = {1}
    /\ \A x \in 1..3 : Col(df, WEIGHT).vals[x] = Frac(6, 10)
    /\ IdCells(df) = IdCells(arg)

---------------------------------------------------------------------------
(* One press of Run Processing: weight, missing, tidy, label, export.      *)
PipelinePops == {PopRegion, PopArea}

Init ==
    \E table \in Uploads(PipelineLayouts, MaxRows), m, t, l \in BOOLEAN :
        \/ Start(table, <<>>, Options(FALSE, FALSE, <<>>, m, t, l), "weight")
        \/ \E s \in StrataInputs :
              \/ Start(table, <<>>, Options(TRUE, FALSE, s, m, t, l), "weight")
              \/ \E pop \in PipelinePops :
                    Start(table, pop, Options(TRUE, TRUE, s, m, t, l), "weight")

StepWeight ==
    /\ pc = "weight"
    /\ IF ~opts.use_weight
       THEN /\ pc' = "missing"
            /\ UNCHANGED <<df, pop_df, arg, passed, last>>
       ELSE IF ~opts.pop_file \/ Len(opts.strata_cols) = 0
       THEN /\ pc' = "stopped"
            /\ last' = [stage |-> "add_weights", err |-> "st.error", alias |-> FALSE]
            /\ UNCHANGED <<df, pop_df, arg, passed>>
       ELSE LET r == add_weights(df, pop_df, ParseStrata(opts.strata_cols), POP_SHARE)
            IN  /\ df' = IF r.err = "none" THEN r.tbl ELSE r.df
                /\ passed' = r.df
                /\ pop_df' = r.pop
                /\ arg' = df
                /\ last' = [stage |-> "add_weights", err |-> r.err, alias |-> FALSE]
                /\ pc' = IF r.err = "none" THEN "missing" ELSE "crashed"
    /\ UNCHANGED <<raw, raw_pop, once, opts, tidy, calls>>

StepMissing ==
    /\ pc = "missing"
    /\ IF opts.do_missing
       THEN /\ df' = handle_missing(df, ID)
            /\ passed' = df'
            /\ once' = df'
            /\ arg' = df
            /\ last' = [stage |-> "handle_missing", err |-> "none", alias |-> TRUE]
       ELSE UNCHANGED <<df, passed, once, arg, last>>
    /\ pc' = "tidy"
    /\ UNCHANGED <<pop_df, raw, raw_pop, opts, tidy, calls>>

StepTidy ==
    /\ pc = "tidy"
    /\ IF opts.do_tidy
       THEN /\ tidy' = tidy_zip(df, ID)
            /\ arg' = df
            /\ passed' = df
            /\ last' = [stage |-> "tidy_zip", err |-> tidy'.err, alias |-> FALSE]
            /\ pc' = IF tidy'.err = "none" THEN "label" ELSE "crashed"
       ELSE /\ pc' = "label"
            /\ UNCHANGED <<tidy, arg, passed, last>>
    /\ UNCHANGED <<df, pop_df, raw, raw_pop, once, opts, calls>>

StepLabel ==
    /\ pc = "label"
    /\ IF opts.do_label
       THEN LET r == label_encode(df)
            IN  /\ df' = r.df
                /\ passed' = r.df
                /\ arg' = df
                /\ last' = [stage |-> "label_encode", err |-> r.err, alias |-> TRUE]
                /\ pc' = IF r.err = "none" THEN "export" ELSE "crashed"
       ELSE /\ pc' = "export"
            /\ UNCHANGED <<df, passed, arg, last>>
    /\ UNCHANGED <<pop_df, raw, raw_pop, once, opts, tidy, calls>>

StepExport ==
    /\ pc = "export"
    /\ pc' = "done"
    /\ UNCHANGED <<df, pop_df, raw, raw_pop, arg, passed, once, opts, tidy, last, calls>>

Next == StepWeight \/ StepMissing \/ StepTidy \/ StepLabel \/ StepExport

Spec == Init /\ [][Next]_vars

---------------------------------------------------------------------------
(* Properties of the run.                                                  *)

\* the strata list is empty, or names a column the table or the population
\* reference does not have
BadStrata ==
    /\ opts.use_weight
    /\ \/ Strata = <<>>
       \/ \E c \in Range(Strata) : ~HasCol(raw, c) \/ ~HasCol(raw_pop, c)

\* C4 (as claimed): weighting with an empty strata list, or with a strata
\* column missing from the table or from the population reference, ends in
\* an error before any mutation: the table and the population reference are
\* exactly as uploaded, no column added to either.
C4_ErrorBeforeMutation ==
    (BadStrata /\ pc # "weight") =>
        /\ pc \in {"stopped", "crashed"}
        /\ last.stage = "add_weights"
        /\ df = raw /\ passed = raw
        /\ pop_df = raw_pop

TidyRan == opts.do_tidy /\ pc \in {"label", "export", "done"}

\* C8 (as claimed): whichever steps are selected, every code_value the tidy
\* export emits is the uploaded table's value of that code column for that
\* respondent, and a long row is emitted exactly for the uploaded rows where
\* that code column is non-missing.
C8_TidyKeepsOriginalCodes ==
    TidyRan =>
        /\ \A x \in 1..Len(tidy.all) : \E i \in 1..NRows(raw) :
              /\ IdCells(raw)[i] = tidy.all[x].id
              /\ Col(raw, tidy.all[x].option).vals[i] = tidy.all[x].code_value
        /\ \A c \in Range(Columns(raw)) : \A i \in 1..NRows(raw) :
              HasCol(raw, c \o TEXT) =>
                  (NotNa(Col(raw, c).vals[i])
                     <=> \E x \in 1..Len(tidy.all) :
                            /\ tidy.all[x].option = c
                            /\ tidy.all[x].id = IdCells(raw)[i])

\* C9 (as claimed): after handle_missing, label_encode or add_weights
\* returns, the table and the population reference handed to it are as they
\* were at the call, and the result is a separate table value.
C9_NoStageMutates ==
    (last.stage \in {"handle_missing", "label_encode", "add_weights"} /\ last.err = "none") =>
        /\ passed = arg
        /\ pop_df = raw_pop
        /\ ~last.alias

\* the uploaded columns that are not the (TEXT) column of a pair, in order
KeptColumns == SelectSeq(Columns(raw), LAMBDA c : ~(EndsWith(c, TEXT)
                                                 /\ HasCol(raw, SubSeq(c, 1, Len(c) - Len(TEXT)))))

PlaceOf(c) == CHOOSE k \in 1..Len(KeptColumns) : KeptColumns[k] = c

RawLabel(c) ==
    LET text == Col(raw, c \o TEXT)
        present == SelectSeq(text.vals, NotNa)
    IN  IF Len(present) > 0 THEN present[1].s ELSE c

Suffixed(base) == {base} \cup {base \o <<US>> \o Digits(i) : i \in 1..9}

\* C10 (as claimed): with missing-value handling before label decoding, a
\* paired multi-response code column is renamed to the first non-missing
\* value of its text column in the uploaded table (its own name when there
\* is none), made unique by _1, _2, ...; never to the sentinel; and the
\* result's column names are pairwise distinct.
C10_LabelFromRawText ==
    (opts.do_missing /\ opts.do_label /\ pc \in {"export", "done"}) =>
        /\ \A c \in Range(Columns(raw)) :
              PairedGroupMember(raw, c) =>
                  /\ df[PlaceOf(c)].name \in Suffixed(RawLabel(c))
                  /\ df[PlaceOf(c)].name \notin Suffixed(SENTINEL)
        /\ \A a, b \in 1..Len(df) : df[a].name = df[b].name => a = b

===========================================================================
